---------------------------- MODULE Spec2Model ----------------------------
(***************************************************************************)
(* A model of the bignum-ig crate (veprogames/big_num): the value type     *)
(* Big = Number{m: f64, e: i64} | NaN | Infinity(kind) | Zero, its         *)
(* normalizer, its arithmetic operators, its comparator, powf, the parser  *)
(* (FromStr) and to_exponential.                                           *)
(*                                                                         *)
(* Machine numbers.  TLC's integers are 32 bits wide, so the crate's i64   *)
(* exponent is modelled as a two's-complement integer of I64Bits bits and  *)
(* the i32 of the `as i32` casts as one of I32Bits bits, keeping the order *)
(* SIG_DIGITS < f64 decimal range < i32 range < i64 range of the program.  *)
(* An f64 is modelled as a decimal floating-point number: NaN, +-inf, zero *)
(* or sign * d * 10^(q - MantDigits + 1) with a MantDigits-digit           *)
(* significand d and a decimal order q in the f64 range                    *)
(* F64_MIN_SUBNORMAL_EXP..F64_MAX_10_EXP; every operation rounds to        *)
(* nearest (ties to even), overflows to +-inf and underflows to zero, as   *)
(* IEEE-754 does.  floor(log10|x|) is taken exactly (the order q): the     *)
(* last-bit rounding of the libm log10 is not modelled.                    *)
(*                                                                         *)
(* Unchecked i64 arithmetic (`-`, `+=`, `-=`) panics on overflow in a      *)
(* build with overflow checks (debug) and wraps in one without (release);  *)
(* every operator below returns the wrapped value together with a flag     *)
(* `ovf`, and the actions let either build's outcome happen.               *)
(*                                                                         *)
(* powf.  log10 and 10^x are taken where the decimal f64 takes them        *)
(* exactly: powf is applied to receivers whose mantissa is +-1 with powers *)
(* that are multiples of 1/2, so `log % 1.0` is 0, 1/2 or -1/2.            *)
(*                                                                         *)
(* Text.  A text is the sequence of its parts between the "e"s; a part is  *)
(* a decimal numeral (sign, digits, number of fractional digits) or some   *)
(* other run of characters.  Parsing and formatting are computed on the    *)
(* digits, with the rounding of the f64 they go through.                   *)
(*                                                                         *)
(* Three specifications: Spec (one operation on a constructed or parsed    *)
(* value), SpecChain (chains of normalizing operators) and SpecDeferred    *)
(* (a chain of *_mut_unnormalized forms beside the same chain of           *)
(* normalizing operators).                                                 *)
(***************************************************************************)
EXTENDS Integers, Sequences, FiniteSets, TLC

\* ------------------------------------------------------------- bounds ----
\* width of the modelled i64 (the exponent field `e`)
I64Bits == 24
\* width of the modelled i32 (the target of the `as i32` casts)
I32Bits == 12
\* decimal digits of the modelled f64 significand
MantDigits == 3
\* longest chain of operator applications in SpecChain
MaxOps == 2

\* ---------------------------------------------------- program constants --
SIG_DIGITS == 15
\* f64::MAX_10_EXP: 10^308 is finite, 10^309 is +inf
F64_MAX_10_EXP == 308
\* decimal order of the smallest subnormal f64 (5e-324)
F64_MIN_SUBNORMAL_EXP == -324
\* f64::MIN_10_EXP: 10^-307 is the smallest normal power of ten
F64_MIN_10_EXP == -307

I64_MAX == 2^(I64Bits - 1) - 1
I64_MIN == -(2^(I64Bits - 1))

\* two's-complement wrap of x into `bits` bits
Wrap(x, bits) ==
    ((x + 2^(bits - 1)) % 2^bits) - 2^(bits - 1)

InI64(x) == x >= I64_MIN /\ x <= I64_MAX

\* `x as i32` for an i64 x: truncation to the low bits
as_i32(x) == Wrap(x, I32Bits)

\* unchecked i64 `a + b` / `a - b`: the wrapped result and whether it overflowed
i64_add(a, b) == [v |-> Wrap(a + b, I64Bits), ovf |-> ~InI64(a + b)]
i64_sub(a, b) == [v |-> Wrap(a - b, I64Bits), ovf |-> ~InI64(a - b)]

\* i64::checked_add / checked_sub: TRUE when the result is None
checked_add_is_none(a, b) == ~InI64(a + b)
checked_sub_is_none(a, b) == ~InI64(a - b)

\* ------------------------------------------------------------ f64 --------
Base == 10^(MantDigits - 1)
Hi == 10^MantDigits

FNaN == [c |-> "nan", s |-> 1, d |-> 0, q |-> 0]
FZero == [c |-> "zero", s |-> 1, d |-> 0, q |-> 0]
FInf(s) == [c |-> "inf", s |-> s, d |-> 0, q |-> 0]
Fin(s, d, q) == [c |-> "fin", s |-> s, d |-> d, q |-> q]

RECURSIVE Digits(_)
Digits(n) == IF n < 10 THEN 1 ELSE 1 + Digits(n \div 10)

\* the f64 nearest to s * n * 10^x (plus a nonzero tail below the unit digit when
\* `sticky`): round to nearest, ties to even; overflow to +-inf, underflow to zero
FRound(s, n, x, sticky) ==
    IF n = 0 THEN FZero
    ELSE LET k == Digits(n)
             drop == k - MantDigits
             t == IF drop > 0 THEN n \div 10^drop ELSE n * 10^(-drop)
             r == IF drop > 0 THEN n % 10^drop ELSE 0
             half == IF drop > 0 THEN 5 * 10^(drop - 1) ELSE 1
             up == drop > 0 /\ (r > half \/ (r = half /\ (sticky \/ t % 2 = 1)))
             d0 == IF up THEN t + 1 ELSE t
             d == IF d0 = Hi THEN Base ELSE d0
             q == x + k - 1 + (IF d0 = Hi THEN 1 ELSE 0)
         IN  IF q > F64_MAX_10_EXP THEN FInf(s)
             ELSE IF q < F64_MIN_SUBNORMAL_EXP THEN FZero
             ELSE Fin(s, d, q)

\* exponent of the unit digit of a finite f64
Unit(a) == a.q - MantDigits + 1

FNeg(a) == IF a.c \in {"fin", "inf"} THEN [a EXCEPT !.s = -a.s] ELSE a
FAbs(a) == IF a.c \in {"fin", "inf"} THEN [a EXCEPT !.s = 1] ELSE a

is_sign_positive(a) == a.s = 1

FMul(a, b) ==
    IF a.c = "nan" \/ b.c = "nan" THEN FNaN
    ELSE IF (a.c = "inf" /\ b.c = "zero") \/ (a.c = "zero" /\ b.c = "inf") THEN FNaN
    ELSE IF a.c = "inf" \/ b.c = "inf" THEN FInf(a.s * b.s)
    ELSE IF a.c = "zero" \/ b.c = "zero" THEN FZero
    ELSE FRound(a.s * b.s, a.d * b.d, Unit(a) + Unit(b), FALSE)

FDiv(a, b) ==
    IF a.c = "nan" \/ b.c = "nan" THEN FNaN
    ELSE IF (a.c = "inf" /\ b.c = "inf") \/ (a.c = "zero" /\ b.c = "zero") THEN FNaN
    ELSE IF a.c = "inf" THEN FInf(a.s * b.s)
    ELSE IF b.c = "zero" THEN FInf(a.s * b.s)
    ELSE IF a.c = "zero" \/ b.c = "inf" THEN FZero
    ELSE LET n == a.d * 10^(MantDigits + 1)
         IN  FRound(a.s * b.s, n \div b.d, Unit(a) - Unit(b) - (MantDigits + 1),
                    n % b.d /= 0)

\* a + b for finite nonzero a, b with a.q >= b.q
FAddOrdered(a, b) ==
    LET k == a.q - b.q
    IN  IF k > MantDigits + 1 THEN a
        ELSE LET n == a.s * a.d * 10^k + b.s * b.d
             IN  IF n = 0 THEN FZero
                 ELSE FRound(IF n < 0 THEN -1 ELSE 1, IF n < 0 THEN -n ELSE n,
                             Unit(b), FALSE)

FAdd(a, b) ==
    IF a.c = "nan" \/ b.c = "nan" THEN FNaN
    ELSE IF a.c = "inf" /\ b.c = "inf" THEN (IF a.s = b.s THEN a ELSE FNaN)
    ELSE IF a.c = "inf" THEN a
    ELSE IF b.c = "inf" THEN b
    ELSE IF a.c = "zero" THEN b
    ELSE IF b.c = "zero" THEN a
    ELSE IF a.q >= b.q THEN FAddOrdered(a, b) ELSE FAddOrdered(b, a)

FSub(a, b) == FAdd(a, FNeg(b))

\* 10^k mod m by square and multiply
RECURSIVE PowMod10(_, _)
PowMod10(k, m) ==
    IF k = 0 THEN 1 % m
    ELSE LET h == PowMod10(k \div 2, m)
             sq == (h * h) % m
         IN  IF k % 2 = 1 THEN (sq * 10) % m ELSE sq

\* the f64 `%` (fmod): exact, the sign of the dividend, magnitude below |b|
FRem(a, b) ==
    IF a.c = "nan" \/ b.c = "nan" THEN FNaN
    ELSE IF a.c = "inf" \/ b.c = "zero" THEN FNaN
    ELSE IF a.c = "zero" \/ b.c = "inf" THEN a
    ELSE IF a.q < b.q THEN a
    ELSE FRound(a.s, ((a.d % b.d) * PowMod10(a.q - b.q, b.d)) % b.d, Unit(b), FALSE)

\* a == b, a < b, a > b on f64 (all FALSE with a NaN operand)
FSign(a) == IF a.c = "zero" \/ a.c = "nan" THEN 0 ELSE a.s
FEq(a, b) == a.c /= "nan" /\ b.c /= "nan" /\ a = b
FLt(a, b) ==
    /\ a.c /= "nan" /\ b.c /= "nan"
    /\ IF a.c = "inf" /\ b.c = "inf" THEN a.s < b.s
       ELSE IF a.c \in {"fin", "zero"} /\ b.c \in {"fin", "zero"}
            THEN IF FSign(a) /= FSign(b) THEN FSign(a) < FSign(b)
                 ELSE IF a.c = "zero" THEN FALSE
                 ELSE IF a.q /= b.q THEN (IF a.s = 1 THEN a.q < b.q ELSE a.q > b.q)
                 ELSE (IF a.s = 1 THEN a.d < b.d ELSE a.d > b.d)
            ELSE IF a.c = "inf" THEN a.s = -1 ELSE b.s = 1
FGt(a, b) == FLt(b, a)

\* 10.0_f64.powi(n): the runtime's __powidf2 computes 10^|n| by repeated
\* squaring and takes the reciprocal for n < 0, so 10^|n| = +inf gives 0.0
powi10(n) ==
    IF n >= 0 THEN (IF n > F64_MAX_10_EXP THEN FInf(1) ELSE Fin(1, Base, n))
    ELSE (IF -n > F64_MAX_10_EXP THEN FZero ELSE Fin(1, Base, n))

\* `x.log10() as i64` for finite nonzero positive x: truncation toward zero
log10_trunc(a) ==
    IF a.q >= 0 \/ a.d = Base THEN a.q ELSE a.q + 1

\* `x.log10().floor() as i64` for finite nonzero positive x
log10_floor(a) == a.q

\* ------------------------------------------------------------ Big --------
Number(m, e) == [k |-> "Number", kind |-> "None", m |-> m, e |-> e]
NaN == [k |-> "NaN", kind |-> "None", m |-> FZero, e |-> 0]
Zero == [k |-> "Zero", kind |-> "None", m |-> FZero, e |-> 0]
Infinity(kind) == [k |-> "Infinity", kind |-> kind, m |-> FZero, e |-> 0]
POS_INFINITY == Infinity("Positive")
NEG_INFINITY == Infinity("Negative")

\* the result of an operation: the value a build without overflow checks leaves,
\* and whether an unchecked i64 operation overflowed on the way (a panic with them)
Done(v) == [v |-> v, ovf |-> FALSE]

\* Big::normalize
normalize(b) ==
    IF b.k /= "Number" THEN Done(b)
    ELSE IF b.m.c = "zero" THEN Done(Zero)
    ELSE IF b.m.c = "nan" THEN Done(NaN)
    ELSE IF b.m.c = "inf" THEN Done(IF b.m.s = 1 THEN POS_INFINITY ELSE NEG_INFINITY)
    ELSE IF b.m.s = 1 /\ b.m.q = 0 THEN Done(b)
    ELSE LET log == log10_trunc(FAbs(b.m))
         IN  IF log <= 0 /\ checked_sub_is_none(b.e, -log) THEN Done(Zero)
             ELSE IF log > 0 /\ checked_add_is_none(b.e, log)
                  THEN Done(IF is_sign_positive(b.m) THEN POS_INFINITY
                            ELSE NEG_INFINITY)
             ELSE LET log2 == log10_floor(FAbs(b.m))
                      sum == i64_add(b.e, log2)
                  IN  [v |-> Number(FDiv(b.m, powi10(as_i32(log2))), sum.v),
                       ovf |-> sum.ovf]

\* Big::new
new(mantissa, exponent) == normalize(Number(mantissa, exponent))

\* Big::neg_mut
neg_mut(b) ==
    IF b.k = "Infinity"
    THEN (IF b.kind = "Positive" THEN NEG_INFINITY ELSE POS_INFINITY)
    ELSE IF b.k = "Number" THEN Number(FMul(b.m, Fin(-1, Base, 0)), b.e)
    ELSE b

\* the `a + b` / `a - b` block that follows the match of add_mut_unnormalized and
\* sub_mut_unnormalized, entered whenever self and rhs are both Number by then;
\* sgn is 1 for `+=` and -1 for `-=`.  The third arm holds only |delta| < SIG_DIGITS,
\* so its `delta.try_into::<i32>()` always succeeds
add_numbers(a, b, sgn) ==
    LET delta == i64_sub(b.e, a.e)
    IN  IF delta.v <= -SIG_DIGITS THEN [v |-> a, ovf |-> delta.ovf]
        ELSE IF delta.v >= SIG_DIGITS THEN [v |-> Number(b.m, b.e), ovf |-> delta.ovf]
        ELSE LET scaled == FMul(b.m, powi10(delta.v))
             IN  [v |-> Number(IF sgn = 1 THEN FAdd(a.m, scaled)
                               ELSE FSub(a.m, scaled), a.e),
                  ovf |-> delta.ovf]

\* Big::add_mut_unnormalized
add_mut_unnormalized(a, b) ==
    IF a.k = "NaN" \/ b.k = "NaN" THEN Done(NaN)
    ELSE IF a.k = "Infinity" /\ b.k = "Infinity" /\ a.kind /= b.kind THEN Done(NaN)
    ELSE IF a.k = "Infinity" THEN Done(a)
    ELSE IF b.k = "Infinity" THEN Done(Infinity(b.kind))
    ELSE IF a.k = "Zero"
         THEN (IF b.k = "Number" THEN add_numbers(b, b, 1) ELSE Done(b))
    ELSE IF b.k = "Zero" THEN Done(a)
    ELSE add_numbers(a, b, 1)

\* Big::sub_mut_unnormalized
sub_mut_unnormalized(a, b) ==
    IF a.k = "NaN" \/ b.k = "NaN" THEN Done(NaN)
    ELSE IF a.k = "Infinity" /\ b.k = "Infinity" THEN Done(NaN)
    ELSE IF a.k = "Infinity" THEN Done(a)
    ELSE IF b.k = "Infinity"
         THEN Done(IF b.kind = "Positive" THEN NEG_INFINITY ELSE POS_INFINITY)
    ELSE IF a.k = "Zero"
         THEN (IF b.k = "Number" THEN add_numbers(neg_mut(b), b, -1)
               ELSE Done(neg_mut(b)))
    ELSE IF b.k = "Zero" THEN Done(a)
    ELSE add_numbers(a, b, -1)

\* Big::mul_mut_unnormalized
mul_mut_unnormalized(a, b) ==
    IF a.k = "NaN" \/ b.k = "NaN" THEN Done(NaN)
    ELSE IF a.k = "Infinity" /\ b.k = "Infinity" /\ b.kind = "Positive" THEN Done(a)
    ELSE IF b.k = "Infinity" /\ b.kind = "Negative" THEN Done(NEG_INFINITY)
    ELSE IF (a.k = "Zero" /\ b.k = "Infinity") \/ (a.k = "Infinity" /\ b.k = "Zero")
         THEN Done(NaN)
    ELSE IF a.k = "Number" /\ b.k = "Infinity" THEN Done(Infinity(b.kind))
    ELSE IF a.k = "Infinity" /\ b.k = "Number" THEN Done(a)
    ELSE IF a.k = "Zero" THEN Done(a)
    ELSE IF b.k = "Zero" THEN Done(Zero)
    ELSE LET sum == i64_add(a.e, b.e)
         IN  [v |-> Number(FMul(a.m, b.m), sum.v), ovf |-> sum.ovf]

\* Big::div_mut_unnormalized
div_mut_unnormalized(a, b) ==
    IF a.k = "NaN" \/ b.k = "NaN" THEN Done(NaN)
    ELSE IF a.k = "Infinity" /\ b.k = "Infinity" THEN Done(NaN)
    ELSE IF a.k \in {"Number", "Zero"} /\ b.k = "Infinity" THEN Done(Zero)
    ELSE IF a.k = "Infinity" /\ b.k = "Number" THEN Done(a)
    ELSE IF a.k = "Zero" THEN Done(a)
    ELSE IF b.k = "Zero" THEN Done(NaN)
    ELSE LET diff == i64_sub(a.e, b.e)
         IN  [v |-> Number(FDiv(a.m, b.m), diff.v), ovf |-> diff.ovf]

\* Big::remainder_mut_unnormalized
remainder_mut_unnormalized(a, b) ==
    IF a.k = "NaN" \/ b.k = "NaN" THEN Done(a)
    ELSE IF b.k = "Zero" THEN Done(NaN)
    ELSE IF a.k = "Infinity" /\ b.k = "Infinity" THEN Done(NaN)
    ELSE IF a.k = "Zero" THEN Done(a)
    ELSE IF a.k = "Number" /\ b.k = "Infinity" THEN Done(a)
    ELSE IF a.k = "Infinity" /\ b.k = "Number" THEN Done(NaN)
    ELSE LET diff == i64_sub(b.e, a.e)
             other_m_normalized == FMul(b.m, powi10(as_i32(diff.v)))
             m == IF other_m_normalized = FInf(1) THEN a.m
                  ELSE IF other_m_normalized.c = "zero" THEN FZero
                  ELSE FRem(a.m, other_m_normalized)
         IN  [v |-> Number(m, a.e), ovf |-> diff.ovf]

\* an `_unnormalized` operation followed by self.normalize()
then_normalize(r) ==
    LET n == normalize(r.v)
    IN  [v |-> n.v, ovf |-> r.ovf \/ n.ovf]

\* impl AddAssign / SubAssign / MulAssign / DivAssign / RemAssign for Big
add_assign(a, b) == then_normalize(add_mut_unnormalized(a, b))
sub_assign(a, b) == then_normalize(sub_mut_unnormalized(a, b))
mul_assign(a, b) == then_normalize(mul_mut_unnormalized(a, b))
div_assign(a, b) == then_normalize(div_mut_unnormalized(a, b))
rem_assign(a, b) == then_normalize(remainder_mut_unnormalized(a, b))

\* impl Neg for Big
neg(a) == Done(neg_mut(a))

\* impl PartialOrd for Big: "None", "Less", "Equal" or "Greater"
partial_cmp(a, b) ==
    IF a.k = "NaN" \/ b.k = "NaN" THEN Done("None")
    ELSE IF a.k = "Infinity" /\ b.k = "Infinity"
         THEN Done(IF a.kind = b.kind THEN "None"
                   ELSE IF a.kind = "Positive" THEN "Greater" ELSE "Less")
    ELSE IF a.k = "Infinity"
         THEN Done(IF a.kind = "Positive" THEN "Greater" ELSE "Less")
    ELSE IF b.k = "Infinity"
         THEN Done(IF b.kind = "Positive" THEN "Less" ELSE "Greater")
    ELSE IF a.k = "Zero" /\ b.k = "Zero" THEN Done("Equal")
    ELSE IF b.k = "Zero"
         THEN Done(IF is_sign_positive(a.m) THEN "Greater" ELSE "Less")
    ELSE IF a.k = "Zero"
         THEN Done(IF is_sign_positive(b.m) THEN "Less" ELSE "Greater")
    ELSE LET delta == i64_sub(b.e, a.e)
         IN  IF delta.v >= SIG_DIGITS THEN [v |-> "Greater", ovf |-> delta.ovf]
             ELSE IF delta.v <= -SIG_DIGITS THEN [v |-> "Less", ovf |-> delta.ovf]
             ELSE LET m_normalized == FMul(b.m, powi10(as_i32(delta.v)))
                  IN  [v |-> IF FEq(m_normalized, a.m) THEN "Equal"
                             ELSE IF FGt(m_normalized, a.m) THEN "Less"
                             ELSE IF FLt(m_normalized, a.m) THEN "Greater"
                             ELSE "None",
                       ovf |-> delta.ovf]

\* ------------------------------------------------------------ powf -------
\* `x as f64` for an i64 x: the nearest f64
i64_as_f64(x) == FRound(IF x < 0 THEN -1 ELSE 1, IF x < 0 THEN -x ELSE x, 0, FALSE)

\* `a as i64` for an f64 a: truncation toward zero, saturating, 0 for NaN
f64_as_i64(a) ==
    CASE a.c = "nan" \/ a.c = "zero" -> 0
      [] a.c = "inf" -> (IF a.s = 1 THEN I64_MAX ELSE I64_MIN)
      [] a.c = "fin" /\ a.q < 0 -> 0
      [] a.c = "fin" /\ a.q >= Digits(I64_MAX) -> (IF a.s = 1 THEN I64_MAX ELSE I64_MIN)
      [] OTHER ->
            LET t == IF Unit(a) >= 0 THEN a.d * 10^Unit(a) ELSE a.d \div 10^(-Unit(a))
            IN  IF a.s = 1 THEN (IF t > I64_MAX THEN I64_MAX ELSE t)
                ELSE (IF -t < I64_MIN THEN I64_MIN ELSE -t)

\* f64::is_normal: neither zero, subnormal, infinite nor NaN
is_normal(a) == a.c = "fin" /\ a.q >= F64_MIN_10_EXP

\* f64::log10 where the decimal f64 takes it exactly: of NaN, zero, +-inf, a
\* negative number and a power of ten.  (The logarithm of any other number is
\* irrational; powf is modelled on receivers whose mantissa is +-1.)
f64_log10(a) ==
    CASE a.c = "nan" -> FNaN
      [] a.c = "zero" -> FInf(-1)
      [] a.c \in {"fin", "inf"} /\ a.s = -1 -> FNaN
      [] a.c = "inf" -> FInf(1)
      [] a.c = "fin" /\ a.d = Base -> i64_as_f64(a.q)

\* the significand of the f64 nearest to sqrt(10)
Sqrt10 ==
    LET n == 10 * Base * Base
        r == CHOOSE d \in Base..(Hi - 1) : d * d <= n /\ n < (d + 1) * (d + 1)
    IN  IF n - r * r > r THEN r + 1 ELSE r

\* 10.0_f64.powf(x) for the x that `log % 1.0` takes on those receivers with a
\* power that is a multiple of 1/2: 0, 1/2 and -1/2
f64_powf10(x) ==
    CASE x.c = "zero" -> Fin(1, Base, 0)
      [] x = Fin(1, 5 * Base, -1) -> Fin(1, Sqrt10, 0)
      [] x = Fin(-1, 5 * Base, -1) -> Fin(1, Sqrt10, -1)

\* Big::abs: only a Number changes
abs(b) == IF b.k = "Number" THEN Number(FAbs(b.m), b.e) ELSE b

\* Big::log10
log10(b) ==
    CASE b.k = "Number" -> FAdd(f64_log10(b.m), i64_as_f64(b.e))
      [] b.k = "Infinity" /\ b.kind = "Negative" -> FNaN
      [] b.k = "Infinity" /\ b.kind = "Positive" -> FInf(1)
      [] OTHER -> FNaN

\* Big::powf_mut (Big::powf applies it to a clone and returns the clone)
powf(b, p) ==
    IF b.k = "Zero" /\ is_normal(p) THEN b
    ELSE LET log == FMul(log10(abs(b)), p)
         IN  CASE log = FInf(-1) -> NaN
               [] log = FInf(1) -> POS_INFINITY
               [] log.c = "nan" -> NaN
               [] FLt(log, i64_as_f64(I64_MIN)) -> Zero
               [] FGt(log, i64_as_f64(I64_MAX)) -> POS_INFINITY
               [] OTHER ->
                     IF b.k = "Number"
                     THEN LET m == f64_powf10(FRem(log, Fin(1, Base, 0)))
                              m2 == IF FEq(FRem(log, Fin(1, 2 * Base, 0)), FZero)
                                    THEN FAbs(m) ELSE m
                          IN  Number(m2, f64_as_i64(log))
                     ELSE b

\* ------------------------------------------------------------ text -------
\* the parts of a text between its "e"s: a decimal numeral s * n / 10^places
\* written with `places` fractional digits (none and no point when places = 0),
\* or any other run of characters
Dec(s, n, places) == [t |-> "dec", s |-> s, n |-> n, places |-> places, w |-> ""]
Word(w) == [t |-> "word", s |-> 1, n |-> 0, places |-> 0, w |-> w]

\* Result<Big, ParseError>: Ok(v), Err(Parts), Err(Mantissa(part)) or
\* Err(Exponent(part)); NoResult before any from_str
Ok(v) == [k |-> "Ok", v |-> v, part |-> Word("")]
Err(kind, part) == [k |-> kind, v |-> NaN, part |-> part]
NoResult == [k |-> "None", v |-> NaN, part |-> Word("")]

\* Big::from(f64)
from_f64(value) == new(value, 0)

\* str::parse::<f64> and str::parse::<i64> of one part
parses_f64(part) == part.t = "dec" \/ part.w \in {"inf", "+inf", "-inf", "nan"}
parses_i64(part) == part.t = "dec" /\ part.places = 0 /\ InI64(part.s * part.n)
f64_of(part) ==
    CASE part.t = "dec" -> FRound(part.s, part.n, -part.places, FALSE)
      [] part.w \in {"inf", "+inf"} -> FInf(1)
      [] part.w = "-inf" -> FInf(-1)
      [] part.w = "nan" -> FNaN
i64_of(part) == part.s * part.n

\* s.parse::<f64>() of the whole text: one part that is an f64, or a decimal
\* numeral, "e" and an integer of any size; the value is the nearest f64, which
\* is 0.0 or +-inf when the exponent is outside the f64 range
is_literal(t) ==
    \/ Len(t) = 1 /\ parses_f64(t[1])
    \/ Len(t) = 2 /\ t[1].t = "dec" /\ t[2].t = "dec" /\ t[2].places = 0
literal(t) ==
    IF Len(t) = 1 THEN f64_of(t[1])
    ELSE FRound(t[1].s, t[1].n, t[2].s * t[2].n - t[1].places, FALSE)

\* a parser that blames the mantissa when both parts are invalid
parse_parts_mantissa_first(m, e) ==
    CASE parses_f64(m) /\ parses_i64(e) ->
            [r |-> Ok(new(f64_of(m), i64_of(e)).v), ovf |-> new(f64_of(m), i64_of(e)).ovf]
      [] parses_f64(m) /\ ~parses_i64(e) -> [r |-> Err("Exponent", e), ovf |-> FALSE]
      [] OTHER -> [r |-> Err("Mantissa", m), ovf |-> FALSE]

\* the match on (m.parse(), e.parse()) of the two parts of the split text
parse_parts(m, e) ==
    CASE parses_f64(m) /\ parses_i64(e) ->
            [r |-> Ok(new(f64_of(m), i64_of(e)).v), ovf |-> new(f64_of(m), i64_of(e)).ovf]
      [] ~parses_f64(m) /\ parses_i64(e) -> [r |-> Err("Mantissa", m), ovf |-> FALSE]
      [] parses_f64(m) /\ ~parses_i64(e) -> [r |-> Err("Exponent", e), ovf |-> FALSE]
      [] OTHER -> [r |-> Err("Parts", Word("")), ovf |-> FALSE]

\* <Big as FromStr>::from_str: the Result and whether Big::new overflowed
from_str(t) ==
    IF t = <<Dec(1, 0, 0)>> THEN [r |-> Ok(Zero), ovf |-> FALSE]
    ELSE IF t = <<Word("nan")>> THEN [r |-> Ok(NaN), ovf |-> FALSE]
    ELSE IF is_literal(t)
         THEN [r |-> Ok(from_f64(literal(t)).v), ovf |-> from_f64(literal(t)).ovf]
    ELSE IF Len(t) = 2 THEN parse_parts(t[1], t[2])
    ELSE [r |-> Err("Parts", Word("")), ovf |-> FALSE]

\* format!("{m:.places}"): m rounded to `places` fractional digits
fmt_places(m, places) ==
    CASE m.c = "nan" -> Word("nan")
      [] m.c = "inf" -> Word(IF m.s = 1 THEN "inf" ELSE "-inf")
      [] m.c = "zero" -> Dec(1, 0, places)
      [] OTHER ->
            LET x == Unit(m) + places
            IN  IF x >= 0 THEN Dec(m.s, m.d * 10^x, places)
                ELSE IF -x > MantDigits THEN Dec(m.s, 0, places)
                ELSE LET t == m.d \div 10^(-x)
                         r == m.d % 10^(-x)
                         half == 5 * 10^(-x - 1)
                         up == r > half \/ (r = half /\ t % 2 = 1)
                     IN  Dec(m.s, IF up THEN t + 1 ELSE t, places)

\* <Big as Display>::fmt of an Infinity or NaN ("NaN" is matched as "nan")
to_string(b) ==
    CASE b.k = "Infinity" -> Word(IF b.kind = "Positive" THEN "+inf" ELSE "-inf")
      [] b.k = "NaN" -> Word("nan")

\* Big::to_exponential (for places = 0 the text of Zero is "0.": the same value
\* as the numeral "0")
to_exponential(b, places) ==
    CASE b.k = "Zero" -> <<Dec(1, 0, places)>>
      [] b.k = "Number" ->
            <<fmt_places(b.m, places),
              Dec(IF b.e < 0 THEN -1 ELSE 1, IF b.e < 0 THEN -b.e ELSE b.e, 0)>>
      [] OTHER -> <<to_string(b)>>

\* ------------------------------------------------------- state machine ---
VARIABLES
    self,      \* the receiver: the Big the operators are applied to
    rhs,       \* the right operand of the last binary operation
    prev,      \* the receiver before the last operation
    op,        \* the last operation
    raw,       \* the (mantissa, exponent) pair last given to Big::new
    ord,       \* the result of the last partial_cmp
    panicked,  \* an overflow check failed: the thread unwound
    steps,     \* operations applied since construction
    alt,       \* a second Big: the product taken in the other operand order, or
               \* the accumulator of the chain that defers normalization
    power,     \* the power last given to powf
    text,      \* the text last formatted or parsed: its parts between the "e"s
    err        \* the Result of the last from_str

vars == <<self, rhs, prev, op, raw, ord, panicked, steps, alt, power, text, err>>

\* f64 inputs of Big::new / Big::from: the special values, mantissas inside and
\* outside [1, 10) of both signs, a power of ten below 1 and a subnormal
one == Fin(1, Base, 0)
five == Fin(1, 5 * Base, 0)
InputM ==
    { FNaN, FInf(1), FInf(-1), FZero,
      one, five, Fin(1, Hi - 1, 0), Fin(-1, 5 * Base, 0),
      Fin(1, 12 * (Base \div 10) + 3 * (Base \div 100), 1), Fin(-1, Base, 2),
      Fin(1, 5 * Base, -1), Fin(1, Base, -2),
      Fin(1, Base, F64_MAX_10_EXP), Fin(1, Base, -(F64_MAX_10_EXP + 2)) }

\* i64 exponents given to Big::new: the ends of the range, and exponents 14, 15
\* and 1 apart
InputE == { I64_MIN, I64_MIN + 1, -SIG_DIGITS, -1, 0, I64_MAX - 1, I64_MAX }

\* the values Big::new returns on those inputs (in a build that wraps, where an
\* overflow happens)
Operands == { new(m, e).v : m \in InputM, e \in InputE }

\* the inputs of the chains of SpecChain
ChainM == { FZero, five, Fin(-1, Hi - 1, 0), Fin(1, 5 * Base, -1),
            Fin(1, Base, -(F64_MAX_10_EXP + 2)) }
ChainE == { I64_MIN, 0, I64_MAX }
ChainOperands == { new(m, e).v : m \in ChainM, e \in ChainE }

NoRaw == [m |-> FZero, e |-> 0]

Init ==
    /\ self = Zero
    /\ rhs = Zero
    /\ prev = Zero
    /\ op = "init"
    /\ raw = NoRaw
    /\ ord = "-"
    /\ panicked = FALSE
    /\ steps = 0
    /\ alt = Zero
    /\ power = FZero
    /\ text = << >>
    /\ err = NoResult

\* the outcome of an operation whose result is res: the value is stored, or (with
\* overflow checks, when an unchecked i64 operation overflowed) the thread panics
Outcome(name, r, res) ==
    /\ op' = name
    /\ rhs' = r
    /\ prev' = self
    /\ steps' = steps + 1
    /\ ord' = "-"
    /\ UNCHANGED <<raw, alt, power, text, err>>
    /\ \/ /\ panicked' = FALSE
          /\ self' = res.v
       \/ /\ res.ovf
          /\ panicked' = TRUE
          /\ self' = self

\* let x = Big::new(m, e); let y = x.clone()
New(Ms, Es) ==
    /\ op = "init"
    /\ \E m \in Ms, e \in Es :
          /\ raw' = [m |-> m, e |-> e]
          /\ op' = "new"
          /\ UNCHANGED <<rhs, prev, steps, ord, power, text, err>>
          /\ \/ /\ panicked' = FALSE
                /\ self' = new(m, e).v
                /\ alt' = new(m, e).v
             \/ /\ new(m, e).ovf
                /\ panicked' = TRUE
                /\ UNCHANGED <<self, alt>>

\* x += r, x -= r, x *= r, x /= r, x %= r (the value-returning forms clone and
\* apply these)
AddAssign(r) == Outcome("add", r, add_assign(self, r))
SubAssign(r) == Outcome("sub", r, sub_assign(self, r))
MulAssign(r) == Outcome("mul", r, mul_assign(self, r))
DivAssign(r) == Outcome("div", r, div_assign(self, r))
RemAssign(r) == Outcome("rem", r, rem_assign(self, r))

\* x = -x
Neg == Outcome("neg", rhs, neg(self))

\* x.partial_cmp(&r)
Compare(r) ==
    LET res == partial_cmp(self, r)
    IN  /\ op' = "cmp"
        /\ rhs' = r
        /\ prev' = self
        /\ steps' = steps + 1
        /\ UNCHANGED <<self, raw, alt, power, text, err>>
        /\ \/ /\ panicked' = FALSE
              /\ ord' = res.v
           \/ /\ res.ovf
              /\ panicked' = TRUE
              /\ ord' = "-"

\* let p = x.clone() * r.clone(); let q = r * x
MulCommuted(r) ==
    LET xr == mul_assign(self, r)
        rx == mul_assign(r, self)
    IN  /\ op' = "mul2"
        /\ rhs' = r
        /\ prev' = self
        /\ steps' = steps + 1
        /\ ord' = "-"
        /\ UNCHANGED <<raw, power, text, err>>
        /\ \/ /\ panicked' = FALSE
              /\ self' = xr.v
              /\ alt' = rx.v
           \/ /\ xr.ovf \/ rx.ovf
              /\ panicked' = TRUE
              /\ UNCHANGED <<self, alt>>

\* the powers given to powf: 0, NaN, +inf, +-1, +-2, 3 and +-1/2, 3/2
PowerInputs ==
    { FZero, FNaN, FInf(1), one, Fin(-1, Base, 0), Fin(1, 2 * Base, 0),
      Fin(-1, 2 * Base, 0), Fin(1, 3 * Base, 0), Fin(1, 5 * Base, -1),
      Fin(-1, 5 * Base, -1), Fin(1, 15 * (Base \div 10), 0) }

\* the receivers on which the model takes log10 exactly
PowerOfTen(b) == b.k = "Number" => (b.m.c /= "fin" \/ b.m.d = Base)

\* x = x.powf(p)
Powf(p) ==
    /\ PowerOfTen(self)
    /\ op' = "powf"
    /\ power' = p
    /\ prev' = self
    /\ steps' = steps + 1
    /\ ord' = "-"
    /\ self' = powf(self, p)
    /\ UNCHANGED <<rhs, raw, panicked, alt, text, err>>

\* the parts of the texts given to from_str: "0", "1.5", "-3", an integer above
\* i64::MAX, "x", "", "inf" and "nan"; and the texts of one to three parts
PartInputs ==
    { Dec(1, 0, 0), Dec(1, 15, 1), Dec(-1, 3, 0), Dec(1, I64_MAX + 1, 0),
      Word("x"), Word(""), Word("inf"), Word("nan") }
TextInputs ==
    { <<a>> : a \in PartInputs }
        \cup { <<a, b>> : a \in PartInputs, b \in PartInputs }
        \cup { <<a, b, c>> : a \in PartInputs, b \in PartInputs, c \in PartInputs }

\* the `places` given to to_exponential
PlacesInputs == { 0, MantDigits - 1, MantDigits }

\* text = x.to_exponential(places)
ToExponential(places) ==
    /\ op' = "fmt"
    /\ text' = to_exponential(self, places)
    /\ prev' = self
    /\ steps' = steps + 1
    /\ ord' = "-"
    /\ UNCHANGED <<self, rhs, raw, panicked, alt, power, err>>

\* x = t.parse::<Big>()
FromStr(t, name) ==
    LET res == from_str(t)
    IN  /\ op' = name
        /\ text' = t
        /\ steps' = steps + 1
        /\ ord' = "-"
        /\ UNCHANGED <<rhs, prev, raw, alt, power>>
        /\ \/ /\ panicked' = FALSE
              /\ err' = res.r
              /\ self' = IF res.r.k = "Ok" THEN res.r.v ELSE self
           \/ /\ res.ovf
              /\ panicked' = TRUE
              /\ UNCHANGED <<self, err>>

\* one operation on a freshly constructed value
Built == op = "new" /\ ~panicked

Next ==
    \/ New(InputM, InputE)
    \/ Built /\ \E r \in Operands : AddAssign(r)
    \/ Built /\ \E r \in Operands : SubAssign(r)
    \/ Built /\ \E r \in Operands : MulAssign(r)
    \/ Built /\ \E r \in Operands : DivAssign(r)
    \/ Built /\ \E r \in Operands : RemAssign(r)
    \/ Built /\ Neg
    \/ Built /\ \E r \in Operands : Compare(r)
    \/ Built /\ \E r \in Operands : MulCommuted(r)
    \/ Built /\ \E p \in PowerInputs : Powf(p)
    \/ op = "init" /\ \E t \in TextInputs : FromStr(t, "parse")
    \/ Built /\ \E places \in PlacesInputs : ToExponential(places)
    \/ op = "fmt" /\ FromStr(text, "reparse")

Spec == Init /\ [][Next]_vars

\* chains of at most MaxOps normalizing operators on a constructed value
Running == op /= "init" /\ ~panicked /\ steps < MaxOps

NextChain ==
    \/ New(ChainM, ChainE)
    \/ Running /\ \E r \in ChainOperands : AddAssign(r)
    \/ Running /\ \E r \in ChainOperands : SubAssign(r)
    \/ Running /\ \E r \in ChainOperands : MulAssign(r)
    \/ Running /\ \E r \in ChainOperands : DivAssign(r)
    \/ Running /\ \E r \in ChainOperands : RemAssign(r)
    \/ Running /\ Neg

SpecChain == Init /\ [][NextChain]_vars

\* one step of two chains from the same value: x op= r with the normalizing
\* operator on self, y.op_mut_unnormalized(&r) on alt
Both(name, r, eager, deferred) ==
    /\ op' = name
    /\ rhs' = r
    /\ prev' = self
    /\ steps' = steps + 1
    /\ ord' = "-"
    /\ UNCHANGED <<raw, power, text, err>>
    /\ \/ /\ panicked' = FALSE
          /\ self' = eager.v
          /\ alt' = deferred.v
       \/ /\ eager.ovf \/ deferred.ovf
          /\ panicked' = TRUE
          /\ UNCHANGED <<self, alt>>

AddBoth(r) == Both("add", r, add_assign(self, r), add_mut_unnormalized(alt, r))
SubBoth(r) == Both("sub", r, sub_assign(self, r), sub_mut_unnormalized(alt, r))
MulBoth(r) == Both("mul", r, mul_assign(self, r), mul_mut_unnormalized(alt, r))
DivBoth(r) == Both("div", r, div_assign(self, r), div_mut_unnormalized(alt, r))
RemBoth(r) == Both("rem", r, rem_assign(self, r), remainder_mut_unnormalized(alt, r))

\* the right operands of those chains: the normalized values of SpecChain, and
\* +inf
DeferredOperands ==
    { b \in ChainOperands : b.k = "Number" => (b.m.c = "fin" /\ b.m.q = 0) }
        \cup { POS_INFINITY }

\* chains of at most MaxOps binary operations, applied eagerly and deferred
NextDeferred ==
    \/ New(ChainM, ChainE)
    \/ Running /\ \E r \in DeferredOperands : AddBoth(r)
    \/ Running /\ \E r \in DeferredOperands : SubBoth(r)
    \/ Running /\ \E r \in DeferredOperands : MulBoth(r)
    \/ Running /\ \E r \in DeferredOperands : DivBoth(r)
    \/ Running /\ \E r \in DeferredOperands : RemBoth(r)

SpecDeferred == Init /\ [][NextDeferred]_vars

\* ------------------------------------------------------------ claims -----
\* a Number in the sense of the data model: a finite mantissa with 1 <= |m| < 10
MantissaInRange(m) == m.c = "fin" /\ m.q = 0
IsNumber(b) == b.k = "Number" /\ MantissaInRange(b.m)

\* the last operation was the binary operator `name` and it returned
Returned(name) == op = name /\ ~panicked

\* C1: after Big::new and any sequence of the normalizing operators, a value in
\* the Number state has a mantissa with 1 <= |m| < 10.
C1_NumberMantissaInRange ==
    (op /= "init" /\ ~panicked /\ self.k = "Number") => MantissaInRange(self.m)

\* C2: Zero is the identity of addition on both sides: Zero + x and x + Zero are x
\* for every Number x (same mantissa and exponent), and for Zero or Infinity x.
C2_ZeroIsAdditiveIdentity ==
    /\ (op = "add" /\ prev = Zero /\ (IsNumber(rhs) \/ rhs.k \in {"Zero", "Infinity"}))
          => (~panicked /\ self = rhs)
    /\ (op = "add" /\ rhs = Zero /\ (IsNumber(prev) \/ prev.k \in {"Zero", "Infinity"}))
          => (~panicked /\ self = prev)

\* C3: for every Number x, Zero - x is the Number with x's exponent and the
\* negated mantissa of x, and x - Zero is x.
C3_SubtractionWithZero ==
    /\ (op = "sub" /\ prev = Zero /\ IsNumber(rhs))
          => (~panicked /\ self = Number(FNeg(rhs.m), rhs.e))
    /\ (op = "sub" /\ rhs = Zero /\ IsNumber(prev))
          => (~panicked /\ self = prev)

\* C4: for Numbers a and b with delta = e(b) - e(a) as the true integer difference,
\* a + b is exactly b when delta >= 15 and exactly a when delta <= -15, and the
\* addition returns (no panic, no wrapped delta).
C4_AdditionCutoff ==
    (op = "add" /\ IsNumber(prev) /\ IsNumber(rhs)) =>
        /\ (rhs.e - prev.e >= SIG_DIGITS => (~panicked /\ self = rhs))
        /\ (rhs.e - prev.e <= -SIG_DIGITS => (~panicked /\ self = prev))

\* C5: for Numbers a and b, a - b is the Number with b's exponent and the negated
\* mantissa of b when e(b) - e(a) >= 15, and a unchanged when e(b) - e(a) <= -15.
C5_SubtractionCutoff ==
    (Returned("sub") /\ IsNumber(prev) /\ IsNumber(rhs)) =>
        /\ (rhs.e - prev.e >= SIG_DIGITS => self = Number(FNeg(rhs.m), rhs.e))
        /\ (rhs.e - prev.e <= -SIG_DIGITS => self = prev)

\* C6: multiplying (dividing) two Numbers whose exponent sum (difference) exceeds
\* i64::MAX gives Infinity with the sign of the resulting mantissa, one below
\* i64::MIN gives Zero; the operation returns and the exponent does not wrap.
C6_MulDivExponentChecked ==
    /\ (op = "mul" /\ IsNumber(prev) /\ IsNumber(rhs)) =>
          /\ ~panicked
          /\ prev.e + rhs.e > I64_MAX =>
                self = (IF FMul(prev.m, rhs.m).s = 1 THEN POS_INFINITY
                        ELSE NEG_INFINITY)
          /\ prev.e + rhs.e < I64_MIN => self = Zero
    /\ (op = "div" /\ IsNumber(prev) /\ IsNumber(rhs)) =>
          /\ ~panicked
          /\ prev.e - rhs.e > I64_MAX =>
                self = (IF FDiv(prev.m, rhs.m).s = 1 THEN POS_INFINITY
                        ELSE NEG_INFINITY)
          /\ prev.e - rhs.e < I64_MIN => self = Zero

\* C7: for a finite nonzero m and any e, Big::new(m, e) returns: the Number with the
\* digits of m, |mantissa| in [1, 10) and exponent e + floor(log10|m|) when that
\* exponent is in the i64 range, Zero when it is below i64::MIN, Infinity(sign of
\* m) when it is above i64::MAX.
C7_NormalizeNeverWraps ==
    (op = "new" /\ raw.m.c = "fin") =>
        LET target == raw.e + raw.m.q
        IN  /\ ~panicked
            /\ self = IF target < I64_MIN THEN Zero
                      ELSE IF target > I64_MAX
                           THEN (IF raw.m.s = 1 THEN POS_INFINITY ELSE NEG_INFINITY)
                      ELSE Number(Fin(raw.m.s, raw.m.d, 0), target)

\* the order of lhs's mantissa against rhs's mantissa rescaled by 10^delta
MantissaOrder(a, b) ==
    LET scaled == FMul(b.m, powi10(b.e - a.e))
    IN  IF FEq(scaled, a.m) THEN "Equal"
        ELSE IF FGt(scaled, a.m) THEN "Less" ELSE "Greater"

\* C8: for Numbers lhs, rhs with delta = e(rhs) - e(lhs), partial_cmp(lhs, rhs) is
\* Less when delta >= 15, Greater when delta <= -15, and otherwise the order of
\* lhs's mantissa against rhs's mantissa rescaled by 10^delta.
C8_NumberOrderingByCutoff ==
    (Returned("cmp") /\ IsNumber(prev) /\ IsNumber(rhs)) =>
        ord = IF rhs.e - prev.e >= SIG_DIGITS THEN "Less"
              ELSE IF rhs.e - prev.e <= -SIG_DIGITS THEN "Greater"
              ELSE MantissaOrder(prev, rhs)

\* C9: for each of +, -, *, / and %, the result is NaN when either operand is NaN.
C9_NaNAbsorbing ==
    (op \in {"add", "sub", "mul", "div", "rem"} /\ (prev = NaN \/ rhs = NaN))
        => (~panicked /\ self = NaN)

\* C10: x / Zero is NaN for every x (Number, Infinity, NaN, Zero), and Zero / y is
\* Zero for every Number or Infinity y.
C10_DivisionByZero ==
    /\ (op = "div" /\ rhs = Zero) => (~panicked /\ self = NaN)
    /\ (op = "div" /\ prev = Zero /\ (IsNumber(rhs) \/ rhs.k = "Infinity"))
          => (~panicked /\ self = Zero)

\* the product the dispatch table of the specification gives when one operand is
\* an Infinity and neither is NaN
Flip(kind) == IF kind = "Positive" THEN "Negative" ELSE "Positive"
InfinityTimes(kind, b) ==
    IF b.k = "Zero" THEN NaN
    ELSE IF b.k = "Infinity"
         THEN (IF b.kind = kind THEN NaN ELSE NEG_INFINITY)
    ELSE Infinity(IF b.m.s = 1 THEN kind ELSE Flip(kind))

\* C11: with an Infinity operand and no NaN operand, a * b is, in either operand
\* order: NaN for Zero x Infinity; Infinity with the Infinity's sign flipped by a
\* negative Number for Number x Infinity; NaN for two Infinities of equal sign and
\* Infinity(Negative) for two of opposite signs.
C11_MulInfinityTable ==
    /\ (op = "mul" /\ prev.k = "Infinity" /\ (IsNumber(rhs) \/ rhs.k \in {"Zero", "Infinity"}))
          => (~panicked /\ self = InfinityTimes(prev.kind, rhs))
    /\ (op = "mul" /\ rhs.k = "Infinity" /\ (IsNumber(prev) \/ prev.k \in {"Zero", "Infinity"}))
          => (~panicked /\ self = InfinityTimes(rhs.kind, prev))

\* a value in the Number (mantissa in range), Zero or Infinity state
ProperNonNaN(b) == IsNumber(b) \/ b.k \in {"Zero", "Infinity"}

\* C12: multiplication is commutative over the non-NaN states: for a and b each a
\* Number, Zero or Infinity, a * b and b * a are the same value (same state, same
\* Infinity sign, same mantissa and exponent).
C12_MulCommutative ==
    (Returned("mul2") /\ ProperNonNaN(prev) /\ ProperNonNaN(rhs)) => self = alt

\* |a| < |b| for Numbers a and b with mantissas in range
MagnitudeBelow(a, b) == a.e < b.e \/ (a.e = b.e /\ a.m.d < b.m.d)

\* C13: for Numbers x and y with any exponents in the i64 range, x % y returns; it
\* is Zero or a Number with the sign of x and magnitude below |y|; and it is x
\* itself whenever |x| < |y|, however large e(y) - e(x) is.
C13_RemainderTruncated ==
    (op = "rem" /\ IsNumber(prev) /\ IsNumber(rhs)) =>
        /\ ~panicked
        /\ \/ self = Zero
           \/ /\ IsNumber(self)
              /\ self.m.s = prev.m.s
              /\ MagnitudeBelow(self, rhs)
        /\ MagnitudeBelow(prev, rhs) => self = prev

\* an f64 with an integer value that is odd
OddInteger(p) ==
    /\ p.c = "fin"
    /\ p.q >= 0
    /\ p.q <= MantDigits - 1
    /\ p.d % 10^(-Unit(p)) = 0
    /\ (p.d \div 10^(-Unit(p))) % 2 = 1

\* C14: for a negative Number x and an odd integer-valued power p with a finite
\* result, x.powf(p) is a negative Number; every other finite nonzero result of
\* powf is positive.
C14_PowfSign ==
    (op = "powf" /\ self.k = "Number" /\ self.m.c = "fin") =>
        self.m.s = (IF IsNumber(prev) /\ prev.m.s = -1 /\ OddInteger(power)
                    THEN -1 ELSE 1)

\* the value of a Number with mantissa +-1 raised to p, 10^(log10|x| * p): its
\* exponent is floor(e * p) and its mantissa sqrt(10) when e * p is not an integer
PowerOfTenToThe(x, p) ==
    LET log == FMul(i64_as_f64(x.e), p)
        whole == FRem(log, one) = FZero
        floor == IF whole \/ log.s = 1 THEN f64_as_i64(log) ELSE f64_as_i64(log) - 1
    IN  Number(IF whole THEN one ELSE Fin(1, Sqrt10, 0), floor)

\* C17: for a normalized Number x and a power p for which powf returns a Number,
\* that Number has 1 <= |m| < 10 and the value 10^(log10|x| * p), so it is
\* the value Big::new builds for that quantity, also when the result is below 1.
C17_PowfNormalized ==
    (op = "powf" /\ IsNumber(prev) /\ self.k = "Number") =>
        /\ MantissaInRange(self.m)
        /\ abs(self) = PowerOfTenToThe(prev, power)

\* the number of fractional digits of a mantissa in range
RECURSIVE TrailingZeros(_)
TrailingZeros(n) == IF n % 10 /= 0 THEN 0 ELSE 1 + TrailingZeros(n \div 10)
FractionDigits(m) == MantDigits - 1 - TrailingZeros(m.d)

\* C15: for every Number{m, e} whose mantissa has at most `places` fractional
\* digits, parsing the text produced by to_exponential(places) returns Ok with the
\* same Number{m, e}, also when e is outside the exponent range of an f64.
C15_TextRoundTrip ==
    (op = "reparse" /\ IsNumber(prev) /\ FractionDigits(prev.m) <= text[1].places)
        => (~panicked /\ err = Ok(prev) /\ self = prev)

\* from_str returned for a text of exactly two parts
ParsedTwoParts == op = "parse" /\ ~panicked /\ Len(text) = 2

\* C16 (as stated): ParseError::Parts is returned only when splitting the input on
\* the exponent marker does not give exactly two parts; with exactly two parts the
\* error is Mantissa carrying the mantissa text when that text is invalid, and
\* Exponent carrying the exponent text when the mantissa is valid and the exponent
\* text is invalid.
C16_TypedParseErrors ==
    /\ (op = "parse" /\ ~panicked /\ err.k = "Parts") => Len(text) /= 2
    /\ (ParsedTwoParts /\ ~parses_f64(text[1])) => err = Err("Mantissa", text[1])
    /\ (ParsedTwoParts /\ parses_f64(text[1]) /\ ~parses_i64(text[2]))
          => err = Err("Exponent", text[2])

\* C16 (amended): for a text that is not a floating-point literal, from_str
\* returns Parts when the split does not give exactly two parts or gives two parts
\* that are both invalid; with exactly two parts it returns Mantissa carrying the
\* mantissa text when only the mantissa is invalid and Exponent carrying the
\* exponent text when only the exponent is invalid.  A floating-point literal is
\* never an error, whatever the size of its exponent.
C16_TypedParseErrorsAmended ==
    /\ (op = "parse" /\ is_literal(text)) => (~panicked /\ err.k = "Ok")
    /\ (op = "parse" /\ ~is_literal(text) /\ Len(text) /= 2)
          => (~panicked /\ err = Err("Parts", Word("")))
    /\ (ParsedTwoParts /\ ~parses_f64(text[1]) /\ ~parses_i64(text[2]))
          => err = Err("Parts", Word(""))
    /\ (ParsedTwoParts /\ ~parses_f64(text[1]) /\ parses_i64(text[2]))
          => err = Err("Mantissa", text[1])
    /\ (ParsedTwoParts /\ parses_f64(text[1]) /\ ~parses_i64(text[2]) /\ ~is_literal(text))
          => err = Err("Exponent", text[2])

\* from_str was given two parts that are both invalid ("xe")
C16_BothPartsInvalid ==
    ParsedTwoParts /\ text = <<Word("x"), Word("")>> /\ err.k = "Parts"

\* C18: for any sequence of binary operations on normalized inputs, the chain of
\* *_mut_unnormalized forms followed by one normalize yields the same value as
\* the normalizing operators applied step by step (in the build that returned:
\* where an unchecked operation overflowed, the one that wraps).
C18_DeferredEqualsEager ==
    (op \in {"add", "sub", "mul", "div", "rem"} /\ ~panicked
        /\ ProperNonNaN(new(raw.m, raw.e).v))
        => normalize(alt).v = self


==========================================================================
